---- MODULE Spec2Model ----
(***************************************************************************)
(* The book catalog service of index.js: six request handlers over one     *)
(* Mongoose model (models/Book.js) stored in a MongoDB collection.          *)
(*                                                                         *)
(* Text is a sequence of one-character strings, so that trimming, integer  *)
(* parsing and ordering are computed and not assumed.  A JSON value of a   *)
(* request is a record [kind, s, n]; a request body is a record of JSON    *)
(* values, one per key the handlers or the schema read.                    *)
(***************************************************************************)
EXTENDS Integers, Sequences, FiniteSets, TLC

\* ------------------------------------------------------------------ bounds
\* ObjectIds the driver generates during a run (1..MaxId); they also are the
\* well-formed ids a client can name.
MaxId == 2
\* Largest page number a client asks for.
MaxPage == 2
\* Largest limit a client asks for.
MaxLimit == 2
\* How far below zero the model lets $inc take a stockCount before it stops
\* sending such updates.
MaxDebt == 1

\* ------------------------------------------------------- program constants
\* index.js:226  parseInt(req.query.page) || 1
DefaultPage == 1
\* index.js:227  parseInt(req.query.limit) || 10
DefaultLimit == 10
\* index.js:412  .limit(10)
SearchLimit == 10
\* models/Book.js:22,33  min: 0
MinNumber == 0

Clients == {1, 2}

\* -------------------------------------------------------------- JSON values
Absent == [kind |-> "absent", s |-> <<>>, n |-> 0]
Str(s) == [kind |-> "string", s |-> s, n |-> 0]
Num(n) == [kind |-> "number", s |-> <<>>, n |-> n]

\* ------------------------------------------------------------------- text
Digits == <<"0", "1", "2", "3", "4", "5", "6", "7", "8", "9">>
IsDigit(c) == \E i \in 1..10 : Digits[i] = c
DigitVal(c) == (CHOOSE i \in 1..10 : Digits[i] = c) - 1
IsSpace(c) == c = " "

\* Code unit of a character (the characters the model uses), for ordering.
CharCode(c) ==
    CASE c = " " -> 32
      [] c = "(" -> 40
      [] c = "-" -> 45
      [] c = "." -> 46
      [] IsDigit(c) -> 48 + DigitVal(c)
      [] c = "A" -> 65
      [] c = "B" -> 66
      [] c = "a" -> 97
      [] c = "b" -> 98
      [] c = "x" -> 120
      [] c = "y" -> 121
      [] OTHER -> 127

RECURSIVE TrimLeft(_)
TrimLeft(s) ==
    IF s = <<>> THEN s
    ELSE IF IsSpace(Head(s)) THEN TrimLeft(Tail(s)) ELSE s

RECURSIVE TrimRight(_)
TrimRight(s) ==
    IF s = <<>> THEN s
    ELSE IF IsSpace(s[Len(s)]) THEN TrimRight(SubSeq(s, 1, Len(s) - 1)) ELSE s

\* String.prototype.trim, the setter of a schema path with trim: true.
Trim(s) == TrimRight(TrimLeft(s))

\* Value of the longest prefix of digits of s, with acc the value so far.
RECURSIVE DigitPrefix(_, _)
DigitPrefix(s, acc) ==
    IF s = <<>> \/ ~IsDigit(Head(s)) THEN acc
    ELSE DigitPrefix(Tail(s), 10 * acc + DigitVal(Head(s)))

\* parseInt(text): leading white space, an optional sign, then the longest
\* prefix of digits; NaN when there is no digit there or the text is missing.
ParseInt(v) ==
    LET t == TrimLeft(v.s)
        neg == t # <<>> /\ Head(t) = "-"
        d == IF neg THEN Tail(t) ELSE t
    IN  IF v.kind # "string" \/ d = <<>> \/ ~IsDigit(Head(d))
        THEN [nan |-> TRUE, n |-> 0]
        ELSE [nan |-> FALSE,
              n |-> IF neg THEN 0 - DigitPrefix(d, 0) ELSE DigitPrefix(d, 0)]

\* a || b on a parseInt result: NaN and 0 are falsy.
OrDefault(p, dflt) == IF p.nan \/ p.n = 0 THEN dflt ELSE p.n

\* Math.ceil(n / d) for d # 0 (n >= 0).
CeilDiv(n, d) ==
    IF d > 0 THEN (n + d - 1) \div d
    ELSE 0 - (n \div (0 - d))

\* s < t in the store's default (binary) string order.
RECURSIVE TextLess(_, _)
TextLess(s, t) ==
    IF t = <<>> THEN FALSE
    ELSE IF s = <<>> THEN TRUE
    ELSE IF CharCode(Head(s)) # CharCode(Head(t))
         THEN CharCode(Head(s)) < CharCode(Head(t))
         ELSE TextLess(Tail(s), Tail(t))

\* ------------------------------------------------------------ the schema
\* A document of the collection: the six schema paths and _id.
Doc(id, title, author, genre, publishedYear, isbn, stockCount) ==
    [_id |-> id, title |-> title, author |-> author, genre |-> genre,
     publishedYear |-> publishedYear, ISBN |-> isbn, stockCount |-> stockCount]

StringPaths == {"title", "author", "genre", "ISBN"}
NumberPaths == {"publishedYear", "stockCount"}
SchemaPaths == StringPaths \cup NumberPaths

\* Text of a decimal number, or not a number: Number(text) of JavaScript on
\* the texts the model uses (white space around it ignored, "" is 0).
ToNumber(s) ==
    LET t == Trim(s)
        neg == t # <<>> /\ Head(t) = "-"
        d == IF neg THEN Tail(t) ELSE t
        allDigits == \A i \in 1..Len(d) : IsDigit(d[i])
    IN  IF t = <<>> THEN [nan |-> FALSE, n |-> 0]
        ELSE IF d = <<>> \/ ~allDigits THEN [nan |-> TRUE, n |-> 0]
        ELSE [nan |-> FALSE,
              n |-> IF neg THEN 0 - DigitPrefix(d, 0) ELSE DigitPrefix(d, 0)]

\* A schema path of type String with trim: true, given a JSON value: the
\* cast value, null when the key is missing.
CastString(v) ==
    [castError |-> FALSE, null |-> v.kind # "string", s |-> Trim(v.s), n |-> 0]

\* A schema path of type Number: "" casts to null, a numeric text to its
\* number, any other text is a CastError.
CastNumber(v) ==
    IF v.kind = "number"
    THEN [castError |-> FALSE, null |-> FALSE, s |-> <<>>, n |-> v.n]
    ELSE IF v.kind = "string" /\ v.s # <<>>
    THEN [castError |-> ToNumber(v.s).nan, null |-> FALSE, s |-> <<>>,
          n |-> ToNumber(v.s).n]
    ELSE [castError |-> FALSE, null |-> TRUE, s |-> <<>>, n |-> 0]

CastPath(path, v) == IF path \in StringPaths THEN CastString(v) ELSE CastNumber(v)

\* required: true  (a String path also rejects the empty text)
RequiredOk(path, cv) ==
    /\ ~cv.null
    /\ path \in StringPaths => cv.s # <<>>

\* min: 0 on the Number paths (a null value passes min)
MinOk(path, cv) ==
    path \in NumberPaths /\ ~cv.null => cv.n >= MinNumber

PathValid(path, cv) == ~cv.castError /\ RequiredOk(path, cv) /\ MinOk(path, cv)

\* new Book(req.body) followed by the validation save() runs before it
\* inserts: every path cast and validated; a failed cast is reported inside
\* the ValidationError.
DocumentValid(body) == \A p \in SchemaPaths : PathValid(p, CastPath(p, body[p]))

\* A constructor that fills genre from the author key.
NewBookGenreFromAuthor(body, oid) ==
    Doc(IF body._id.kind = "number" THEN body._id.n ELSE oid,
        CastString(body.title).s, CastString(body.author).s,
        CastString(body.author).s, CastNumber(body.publishedYear).n,
        CastString(body.ISBN).s, CastNumber(body.stockCount).n)

\* The document new Book(req.body) builds, with _id the id of the body when
\* it brings one and the generated ObjectId otherwise.
NewBook(body, oid) ==
    Doc(IF body._id.kind = "number" THEN body._id.n ELSE oid,
        CastString(body.title).s, CastString(body.author).s,
        CastString(body.genre).s, CastNumber(body.publishedYear).n,
        CastString(body.ISBN).s, CastNumber(body.stockCount).n)

\* The paths an update body sets (its top-level schema keys become $set).
SetPaths(body) == {p \in SchemaPaths : body[p].kind # "absent"}

\* castUpdate: a value that cannot be cast throws CastError.
UpdateCastError(body) ==
    \/ \E p \in SetPaths(body) : CastPath(p, body[p]).castError
    \/ body.incStock.kind = "string" /\ ToNumber(body.incStock.s).nan

\* runValidators: true runs the validators of the paths under $set only;
\* $inc is not validated.
UpdateValid(body) ==
    \A p \in SetPaths(body) :
        RequiredOk(p, CastPath(p, body[p])) /\ MinOk(p, CastPath(p, body[p]))

\* The document after the store applies the cast update to doc.
ApplyUpdate(doc, body) ==
    LET set(p, old) == IF p \in SetPaths(body)
                       THEN (IF p \in StringPaths THEN CastPath(p, body[p]).s
                             ELSE CastPath(p, body[p]).n)
                       ELSE old
        inc == IF body.incStock.kind = "number" THEN body.incStock.n ELSE 0
    IN  Doc(doc._id, set("title", doc.title), set("author", doc.author),
            set("genre", doc.genre), set("publishedYear", doc.publishedYear),
            set("ISBN", doc.ISBN), set("stockCount", doc.stockCount) + inc)

\* ------------------------------------------------------------- the store
\* The format check of an id text: ids are modelled by numbers, 1..MaxId the
\* well-formed ObjectIds and BadId the text that is no ObjectId.
BadId == 0
IsObjectId(id) == id # BadId

ById(coll, id) == {d \in coll : d._id = id}

\* A collection whose ISBN index was never built.
NoUniqueIndex(coll, doc) == FALSE

\* The unique indexes of the collection (_id, and ISBN by unique: true):
\* would storing doc next to the other documents raise E11000?
DuplicateKey(coll, doc) ==
    \E d \in coll : d._id # doc._id /\ d.ISBN = doc.ISBN

DuplicateId(coll, doc) == \E d \in coll : d._id = doc._id

\* find().sort({title: 1}): the orders in which the store may return the
\* collection; documents of equal title come in any order.
SortedByTitle(coll) ==
    {f \in [1..Cardinality(coll) -> coll] :
        /\ \A i, j \in 1..Cardinality(coll) : i # j => f[i] # f[j]
        /\ \A i, j \in 1..Cardinality(coll) :
              i < j => ~TextLess(f[j].title, f[i].title)}

Abs(n) == IF n < 0 THEN 0 - n ELSE n
Min(a, b) == IF a < b THEN a ELSE b

\* .skip(skip).limit(limit) of a cursor over the sequence all; a negative
\* limit is the same number of documents in a single batch.
Window(all, skip, limit) ==
    SubSeq(all, skip + 1, Min(Len(all), skip + Abs(limit)))

\* ------------------------------------------------------ errors thrown
\* What the handlers' catch blocks read of an error: name, code and kind.
ValidationError == [name |-> "ValidationError", code |-> 0, kind |-> "required/min/cast"]
CastErrorObjectId == [name |-> "CastError", code |-> 0, kind |-> "ObjectId"]
CastErrorNumber == [name |-> "CastError", code |-> 0, kind |-> "Number"]
E11000 == [name |-> "MongoServerError", code |-> 11000, kind |-> ""]
BadValue == [name |-> "MongoServerError", code |-> 2, kind |-> ""]
SyntaxError == [name |-> "SyntaxError", code |-> 0, kind |-> ""]
\* The store cannot be reached or fails for a reason of its own.
StoreFailure == [name |-> "MongoNetworkError", code |-> 0, kind |-> ""]
NoError == [name |-> "", code |-> 0, kind |-> ""]

\* ------------------------------------------------------------ variables
VARIABLES
    books,     \* the collection: a set of documents
    nextId,    \* the next ObjectId the driver generates
    req,       \* per client: the request in flight and where its handler is
    res,       \* per client: the response sent, while pc = "done"
    deleted,   \* history: the ids a Delete has removed
    pristine,  \* history: [id, body] of each Create whose record no Update or
               \* Delete has touched since
    lost       \* history: the clients whose pending write lost a race for an ISBN

vars == <<books, nextId, req, res, deleted, pristine, lost>>

EmptyBody ==
    [_id |-> Absent, title |-> Absent, author |-> Absent, genre |-> Absent,
     publishedYear |-> Absent, ISBN |-> Absent, stockCount |-> Absent,
     incStock |-> Absent]

\* seen is history: the size of the collection when List read its page.
Idle ==
    [op |-> "none", pc |-> "idle", id |-> BadId, body |-> EmptyBody,
     page |-> 0, limit |-> 0, query |-> Absent, oid |-> BadId,
     found |-> <<>>, seen |-> 0, calls |-> 0]

NoRes ==
    [status |-> 0, error |-> "", message |-> "", thrown |-> NoError,
     books |-> <<>>, page |-> 0, totalPages |-> 0, totalBooks |-> 0,
     afterDelete |-> FALSE, pristine |-> {}, sent |-> 0]

Init ==
    /\ books = {}
    /\ nextId = 1
    /\ req = [c \in Clients |-> Idle]
    /\ res = [c \in Clients |-> NoRes]
    /\ deleted = {}
    /\ pristine = {}
    /\ lost = [c \in Clients |-> FALSE]

\* ------------------------------------------------------- responses sent
\* res.status(status).send(...) on the response r: the first send fixes the
\* status, every send counts.
Send(r, status) ==
    [r EXCEPT !.status = IF r.sent = 0 THEN status ELSE @, !.sent = @ + 1]

Sent(status, error) == [Send(NoRes, status) EXCEPT !.error = error]
SentBook(status, doc) == [Send(NoRes, status) EXCEPT !.books = <<doc>>]

\* A catch that does not know the duplicate key code.
WriteCatchNoDuplicate(e) ==
    [(IF e.name = "ValidationError" THEN Sent(400, "ValidationError")
      ELSE Sent(500, "Internal server error")) EXCEPT !.thrown = e]

\* catch of app.post('/books') and of app.put('/books/:id')
WriteCatch(e) ==
    [(IF e.name = "ValidationError" THEN Sent(400, "ValidationError")
      ELSE IF e.code = 11000 THEN Sent(400, "ISBN must be unique")
      ELSE Sent(500, "Internal server error")) EXCEPT !.thrown = e]

\* A catch that does not look at the kind of the error.
GetCatchNoKind(e) == [Sent(500, "Internal server error") EXCEPT !.thrown = e]

\* catch of app.get('/books/:id')
GetCatch(e) ==
    [(IF e.kind = "ObjectId" THEN Sent(400, "Invalid book ID")
      ELSE Sent(500, "Internal server error")) EXCEPT !.thrown = e]

\* catch of app.get('/books'), app.delete('/books/:id') and app.get('/search')
PlainCatch(e) == [Sent(500, "Internal server error") EXCEPT !.thrown = e]

\* A not-found branch without its return: the handler goes on to send the
\* book it did not find.
NotFoundNoReturn == Send(Sent(404, "Book not found"), 200)

\* return res.status(404).send({ error: 'Book not found' })
NotFound == Sent(404, "Book not found")

\* The handler of client c ends with response r, after n more store calls.
Finish(c, r, n) ==
    /\ req' = [req EXCEPT ![c].pc = "done", ![c].calls = @ + n]
    /\ res' = [res EXCEPT ![c] = r]

\* The handler of client c awaits its (next) store call.
Await(c, r) == req' = [req EXCEPT ![c] = r] /\ UNCHANGED res

\* ------------------------------------------------- history bookkeeping
\* The clients whose pending Create or Update would store the ISBN that
\* client c has just stored in doc, in another record (coll is the
\* collection after c's write).
Rivals(c, doc, coll) ==
    {d \in Clients \ {c} :
        /\ req[d].pc = "store"
        /\ \/ /\ req[d].op = "create"
              /\ NewBook(req[d].body, req[d].oid).ISBN = doc.ISBN
              /\ NewBook(req[d].body, req[d].oid)._id # doc._id
           \/ /\ req[d].op = "update"
              /\ "ISBN" \in SetPaths(req[d].body)
              /\ CastString(req[d].body.ISBN).s = doc.ISBN
              /\ req[d].id # doc._id
              /\ ById(coll, req[d].id) # {}}

\* ------------------------------------------------- POST /books (create)
\* app.post('/books') up to the insert: new Book(req.body) and the
\* validation of save().
ReceiveCreate(c, body) ==
    /\ req[c].pc = "idle"
    /\ LET r == [Idle EXCEPT !.op = "create", !.body = body] IN
       IF ~DocumentValid(body)
       THEN /\ req' = [req EXCEPT ![c] = [r EXCEPT !.pc = "done"]]
            /\ res' = [res EXCEPT ![c] = WriteCatch(ValidationError)]
            /\ UNCHANGED nextId
       ELSE IF body._id.kind = "absent"
       THEN /\ nextId <= MaxId
            /\ Await(c, [r EXCEPT !.pc = "store", !.oid = nextId])
            /\ nextId' = nextId + 1
       ELSE /\ Await(c, [r EXCEPT !.pc = "store"])
            /\ UNCHANGED nextId
    /\ UNCHANGED <<books, deleted, pristine, lost>>

\* The insert of save() and the rest of app.post('/books').
InsertOne(c, up) ==
    /\ req[c].pc = "store" /\ req[c].op = "create"
    /\ LET doc == NewBook(req[c].body, req[c].oid) IN
       IF ~up
       THEN /\ Finish(c, WriteCatch(StoreFailure), 1)
            /\ UNCHANGED <<books, pristine, lost>>
       ELSE IF DuplicateId(books, doc) \/ DuplicateKey(books, doc)
       THEN /\ Finish(c, WriteCatch(E11000), 1)
            /\ UNCHANGED <<books, pristine, lost>>
       ELSE /\ books' = books \cup {doc}
            /\ Finish(c, SentBook(201, doc), 1)
            /\ pristine' = pristine \cup {[id |-> doc._id, body |-> req[c].body]}
            /\ lost' = [d \in Clients |-> lost[d] \/ d \in Rivals(c, doc, books')]
    /\ UNCHANGED <<nextId, deleted>>

\* --------------------------------------------- PUT /books/:id (update)
\* app.put('/books/:id') up to the store call: findByIdAndUpdate casts the
\* id and the update and runs the update validators.
ReceiveUpdate(c, id, body) ==
    /\ req[c].pc = "idle"
    /\ body.incStock.kind = "number" =>
          \A d \in books : d.stockCount + body.incStock.n >= 0 - MaxDebt
    /\ LET r == [Idle EXCEPT !.op = "update", !.id = id, !.body = body]
           done == [r EXCEPT !.pc = "done"] IN
       IF ~IsObjectId(id)
       THEN /\ req' = [req EXCEPT ![c] = done]
            /\ res' = [res EXCEPT ![c] = WriteCatch(CastErrorObjectId)]
       ELSE IF UpdateCastError(body)
       THEN /\ req' = [req EXCEPT ![c] = done]
            /\ res' = [res EXCEPT ![c] = WriteCatch(CastErrorNumber)]
       ELSE IF ~UpdateValid(body)
       THEN /\ req' = [req EXCEPT ![c] = done]
            /\ res' = [res EXCEPT ![c] = WriteCatch(ValidationError)]
       ELSE Await(c, [r EXCEPT !.pc = "store"])
    /\ UNCHANGED <<books, nextId, deleted, pristine, lost>>

\* A findOneAndUpdate with upsert: true, which inserts the update as a new
\* document when no document has the id.
FindOneAndUpsert(c, up) ==
    /\ req[c].pc = "store" /\ req[c].op = "update"
    /\ LET late(r) == [r EXCEPT !.afterDelete = req[c].id \in deleted]
           old == IF ById(books, req[c].id) = {}
                  THEN Doc(req[c].id, <<>>, <<>>, <<>>, 0, <<>>, 0)
                  ELSE CHOOSE d \in books : d._id = req[c].id
           new == ApplyUpdate(old, req[c].body) IN
       IF ~up
       THEN /\ Finish(c, WriteCatch(StoreFailure), 1)
            /\ UNCHANGED <<books, pristine, lost>>
       ELSE IF DuplicateKey(books, new)
       THEN /\ Finish(c, late(WriteCatch(E11000)), 1)
            /\ UNCHANGED <<books, pristine, lost>>
       ELSE /\ books' = (books \ {old}) \cup {new}
            /\ Finish(c, late(SentBook(200, new)), 1)
            /\ pristine' = {e \in pristine : e.id # new._id}
            /\ lost' = [d \in Clients |->
                          IF d = c THEN lost[c]
                          ELSE /\ "ISBN" \in SetPaths(req[c].body)
                               /\ d \in Rivals(c, new, books')]
    /\ UNCHANGED <<nextId, deleted>>

\* The findOneAndUpdate of the store and the rest of app.put('/books/:id').
\* afterDelete is history: a Delete had removed the id before this call.
FindOneAndUpdate(c, up) ==
    /\ req[c].pc = "store" /\ req[c].op = "update"
    /\ LET late(r) == [r EXCEPT !.afterDelete = req[c].id \in deleted] IN
       IF ~up
       THEN /\ Finish(c, WriteCatch(StoreFailure), 1)
            /\ UNCHANGED <<books, pristine, lost>>
       ELSE IF ById(books, req[c].id) = {}
       THEN /\ Finish(c, late(NotFound), 1)
            /\ UNCHANGED <<books, pristine, lost>>
       ELSE LET old == CHOOSE d \in books : d._id = req[c].id
                new == ApplyUpdate(old, req[c].body) IN
            IF DuplicateKey(books, new)
            THEN /\ Finish(c, late(WriteCatch(E11000)), 1)
                 /\ UNCHANGED <<books, pristine, lost>>
            ELSE /\ books' = (books \ {old}) \cup {new}
                 /\ Finish(c, late(SentBook(200, new)), 1)
                 /\ pristine' = {e \in pristine : e.id # new._id}
                 /\ lost' = [d \in Clients |->
                               IF d = c THEN lost[c]
                               ELSE /\ "ISBN" \in SetPaths(req[c].body)
                                    /\ d \in Rivals(c, new, books')]
    /\ UNCHANGED <<nextId, deleted>>

\* ------------------------------------------------ GET /books/:id (get)
ReceiveGet(c, id) ==
    /\ req[c].pc = "idle"
    /\ LET r == [Idle EXCEPT !.op = "get", !.id = id] IN
       IF ~IsObjectId(id)
       THEN /\ req' = [req EXCEPT ![c] = [r EXCEPT !.pc = "done"]]
            /\ res' = [res EXCEPT ![c] = GetCatch(CastErrorObjectId)]
       ELSE Await(c, [r EXCEPT !.pc = "store"])
    /\ UNCHANGED <<books, nextId, deleted, pristine, lost>>

\* The findOne of the store and the rest of app.get('/books/:id').
FindById(c, up) ==
    /\ req[c].pc = "store" /\ req[c].op = "get"
    /\ LET seen == [afterDelete |-> req[c].id \in deleted,
                    pristine |-> {e.body : e \in {x \in pristine : x.id = req[c].id}}]
       IN
       IF ~up
       THEN Finish(c, GetCatch(StoreFailure), 1)
       ELSE IF ById(books, req[c].id) = {}
       THEN Finish(c, [NotFound EXCEPT !.afterDelete = seen.afterDelete], 1)
       ELSE Finish(c, [SentBook(200, CHOOSE d \in books : d._id = req[c].id)
                         EXCEPT !.afterDelete = seen.afterDelete,
                                !.pristine = seen.pristine], 1)
    /\ UNCHANGED <<books, nextId, deleted, pristine, lost>>

\* ------------------------------------------ DELETE /books/:id (delete)
ReceiveDelete(c, id) ==
    /\ req[c].pc = "idle"
    /\ LET r == [Idle EXCEPT !.op = "delete", !.id = id] IN
       IF ~IsObjectId(id)
       THEN /\ req' = [req EXCEPT ![c] = [r EXCEPT !.pc = "done"]]
            /\ res' = [res EXCEPT ![c] = PlainCatch(CastErrorObjectId)]
       ELSE Await(c, [r EXCEPT !.pc = "store"])
    /\ UNCHANGED <<books, nextId, deleted, pristine, lost>>

\* A handler that finds the book by its id and does not delete it.
FindOneAndKeep(c, up) ==
    /\ req[c].pc = "store" /\ req[c].op = "delete"
    /\ IF ~up
       THEN Finish(c, PlainCatch(StoreFailure), 1)
       ELSE IF ById(books, req[c].id) = {}
       THEN Finish(c, NotFound, 1)
       ELSE Finish(c, [Sent(200, "") EXCEPT
                         !.message = "Book deleted successfully"], 1)
    /\ UNCHANGED <<books, nextId, deleted, pristine, lost>>

\* The findOneAndDelete of the store and the rest of app.delete('/books/:id').
FindOneAndDelete(c, up) ==
    /\ req[c].pc = "store" /\ req[c].op = "delete"
    /\ IF ~up
       THEN /\ Finish(c, PlainCatch(StoreFailure), 1)
            /\ UNCHANGED <<books, deleted, pristine, lost>>
       ELSE IF ById(books, req[c].id) = {}
       THEN /\ Finish(c, NotFound, 1)
            /\ UNCHANGED <<books, deleted, pristine, lost>>
       ELSE /\ books' = books \ ById(books, req[c].id)
            /\ Finish(c, [Sent(200, "") EXCEPT
                            !.message = "Book deleted successfully"], 1)
            /\ deleted' = deleted \cup {req[c].id}
            /\ pristine' = {e \in pristine : e.id # req[c].id}
            /\ lost' = [d \in Clients |-> d = c /\ lost[c]]
    /\ UNCHANGED nextId

\* ---------------------------------------------------- GET /books (list)
\* page and limit as app.get('/books') reads them from the query.
PageOf(page) == OrDefault(ParseInt(page), DefaultPage)
LimitOf(limit) == OrDefault(ParseInt(limit), DefaultLimit)
\* const skip = (page - 1) * limit
SkipOf(page, limit) == (page - 1) * limit
\* A total of pages that is rounded down.
TotalPagesFloor(totalBooks, limit) ==
    IF limit > 0 THEN totalBooks \div limit ELSE CeilDiv(totalBooks, limit)

\* const totalPages = Math.ceil(totalBooks / limit)
TotalPages(totalBooks, limit) == CeilDiv(totalBooks, limit)
\* The books of one page, of the order all in which the store returns them.
PageBooks(all, page, limit) == Window(all, SkipOf(page, limit), limit)

\* app.get('/books') up to its first store call; the handler keeps the
\* parsed page and limit.
ReceiveList(c, page, limit) ==
    /\ req[c].pc = "idle"
    /\ Await(c, [Idle EXCEPT !.op = "list", !.pc = "store",
                             !.page = PageOf(page), !.limit = LimitOf(limit)])
    /\ UNCHANGED <<books, nextId, deleted, pristine, lost>>

\* Book.find().skip(skip).limit(limit).sort({title: 1}): the store rejects a
\* negative skip.
Find(c, up) ==
    /\ req[c].pc = "store" /\ req[c].op = "list"
    /\ IF ~up
       THEN Finish(c, PlainCatch(StoreFailure), 1)
       ELSE IF SkipOf(req[c].page, req[c].limit) < 0
       THEN Finish(c, PlainCatch(BadValue), 1)
       ELSE \E all \in SortedByTitle(books) :
              Await(c, [req[c] EXCEPT
                          !.pc = "count", !.calls = @ + 1,
                          !.seen = Cardinality(books),
                          !.found = PageBooks(all, req[c].page, req[c].limit)])
    /\ UNCHANGED <<books, nextId, deleted, pristine, lost>>

\* Book.countDocuments() and the rest of app.get('/books').
CountDocuments(c, up) ==
    /\ req[c].pc = "count" /\ req[c].op = "list"
    /\ IF ~up
       THEN Finish(c, PlainCatch(StoreFailure), 1)
       ELSE Finish(c, [Send(NoRes, 200) EXCEPT
                         !.page = req[c].page,
                         !.totalBooks = Cardinality(books),
                         !.totalPages = TotalPages(Cardinality(books), req[c].limit),
                         !.books = req[c].found], 1)
    /\ UNCHANGED <<books, nextId, deleted, pristine, lost>>

\* ------------------------------------------------- GET /search (search)
ToLower(ch) == IF ch = "A" THEN "a" ELSE IF ch = "B" THEN "b" ELSE ch

\* new RegExp(query, 'i') throws SyntaxError on an unterminated group.
RegExpValid(q) == \A i \in 1..Len(q) : q[i] # "("

\* regex.test(text) for a pattern of literal characters and ".".
RegExpTest(q, text) ==
    \E k \in 0..(Len(text) - Len(q)) :
        \A i \in 1..Len(q) :
            q[i] = "." \/ ToLower(q[i]) = ToLower(text[k + i])

Matching(coll, q) ==
    {d \in coll : RegExpTest(q, d.title) \/ RegExpTest(q, d.author)
                                          \/ RegExpTest(q, d.genre)}

\* The store's order of a result that is not sorted: any order.
AnyOrder(coll) ==
    {f \in [1..Cardinality(coll) -> coll] :
        \A i, j \in 1..Cardinality(coll) : i # j => f[i] # f[j]}

\* A handler that builds the pattern and queries before it looks at the term.
ReceiveSearchUnchecked(c, query) ==
    /\ req[c].pc = "idle"
    /\ Await(c, [Idle EXCEPT !.op = "search", !.query = query, !.pc = "store"])
    /\ UNCHANGED <<books, nextId, deleted, pristine, lost>>

\* app.get('/search') up to the store call.
ReceiveSearch(c, query) ==
    /\ req[c].pc = "idle"
    /\ LET r == [Idle EXCEPT !.op = "search", !.query = query] IN
       IF query.kind = "absent" \/ query.s = <<>>
       THEN /\ req' = [req EXCEPT ![c] = [r EXCEPT !.pc = "done"]]
            /\ res' = [res EXCEPT ![c] = Sent(400, "Search query is required")]
       ELSE IF ~RegExpValid(query.s)
       THEN /\ req' = [req EXCEPT ![c] = [r EXCEPT !.pc = "done"]]
            /\ res' = [res EXCEPT ![c] = PlainCatch(SyntaxError)]
       ELSE Await(c, [r EXCEPT !.pc = "store"])
    /\ UNCHANGED <<books, nextId, deleted, pristine, lost>>

\* Book.find({$or: [...]}).limit(10) and the rest of app.get('/search').
FindMatching(c, up) ==
    /\ req[c].pc = "store" /\ req[c].op = "search"
    /\ IF ~up
       THEN Finish(c, PlainCatch(StoreFailure), 1)
       ELSE \E all \in AnyOrder(Matching(books, req[c].query.s)) :
              Finish(c, [Send(NoRes, 200) EXCEPT
                           !.books = Window(all, 0, SearchLimit)], 1)
    /\ UNCHANGED <<books, nextId, deleted, pristine, lost>>

\* ------------------------------------------------------------ the client
\* The client has its response; its next request can come.
Respond(c) ==
    /\ req[c].pc = "done"
    /\ req' = [req EXCEPT ![c] = Idle]
    /\ res' = [res EXCEPT ![c] = NoRes]
    /\ lost' = [lost EXCEPT ![c] = FALSE]
    /\ UNCHANGED <<books, nextId, deleted, pristine>>

\* ------------------------------------------------------------ the inputs
TitleTexts == {<<"a">>, <<" ", "B">>}
IsbnTexts == {<<"x">>, <<"y", " ">>}

\* A body with every field of the schema.
BookBody(title, isbn) ==
    [EmptyBody EXCEPT !.title = Str(title), !.author = Str(<<"a">>),
                      !.genre = Str(<<"b">>), !.publishedYear = Num(1),
                      !.ISBN = Str(isbn), !.stockCount = Num(0)]

ValidBodies == {BookBody(t, i) : t \in TitleTexts, i \in IsbnTexts}

\* Bodies that differ from a valid one in one field.
OddBodies ==
    LET b == BookBody(<<"a">>, <<"x">>) IN
    {[b EXCEPT !.title = Str(<<" ">>)],
     [b EXCEPT !.author = Absent],
     [b EXCEPT !.ISBN = Absent],
     [b EXCEPT !.publishedYear = Num(-1)],
     [b EXCEPT !.publishedYear = Str(<<"a">>)],
     [b EXCEPT !.publishedYear = Str(<<"1">>)],
     [b EXCEPT !.stockCount = Num(-1)]}

\* Bodies that bring the _id of an ObjectId the client has seen.
IdBodies ==
    {[BookBody(<<"a">>, i) EXCEPT !._id = Num(k)] :
        i \in IsbnTexts, k \in 1..MaxId}

\* Update bodies: one key each.
IsbnUpdates == {[EmptyBody EXCEPT !.ISBN = Str(i)] : i \in IsbnTexts}

OddUpdates ==
    {EmptyBody,
     [EmptyBody EXCEPT !.title = Str(<<" ">>)],
     [EmptyBody EXCEPT !.stockCount = Num(-1)],
     [EmptyBody EXCEPT !.publishedYear = Str(<<"a">>)],
     [EmptyBody EXCEPT !.incStock = Num(-1)]}

IdTexts == {BadId} \cup (1..MaxId)

\* The text of a number -9..9.
NumText(n) == IF n < 0 THEN <<"-", Digits[1 - n]>> ELSE <<Digits[n + 1]>>

PageTexts ==
    {Absent, Str(<<"a">>)} \cup {Str(NumText(n)) : n \in (-1)..MaxPage}
LimitTexts ==
    {Absent, Str(<<"a">>)} \cup {Str(NumText(n)) : n \in (-1)..MaxLimit}

QueryTexts == {Absent, Str(<<>>), Str(<<"a">>), Str(<<"(">>), Str(<<".">>)}

\* Every request of the model.
AllInputs ==
    [creates |-> ValidBodies \cup OddBodies \cup IdBodies,
     updates |-> IsbnUpdates \cup OddUpdates,
     ids |-> IdTexts,
     pages |-> PageTexts, limits |-> LimitTexts,
     queries |-> QueryTexts]

\* The requests of the clients that run side by side.
RaceInputs ==
    [creates |-> ValidBodies,
     updates |-> IsbnUpdates,
     ids |-> 1..MaxId,
     pages |-> {Absent}, limits |-> {Absent},
     queries |-> {Str(<<"a">>)}]

\* ------------------------------------------------------ specifications
\* One step of client c with requests drawn from in.
Step(c, in) ==
    \/ \E body \in in.creates : ReceiveCreate(c, body)
    \/ \E up \in BOOLEAN : InsertOne(c, up)
    \/ \E id \in in.ids, body \in in.updates : ReceiveUpdate(c, id, body)
    \/ \E up \in BOOLEAN : FindOneAndUpdate(c, up)
    \/ \E id \in in.ids : ReceiveGet(c, id)
    \/ \E up \in BOOLEAN : FindById(c, up)
    \/ \E id \in in.ids : ReceiveDelete(c, id)
    \/ \E up \in BOOLEAN : FindOneAndDelete(c, up)
    \/ \E page \in in.pages, limit \in in.limits : ReceiveList(c, page, limit)
    \/ \E up \in BOOLEAN : Find(c, up)
    \/ \E up \in BOOLEAN : CountDocuments(c, up)
    \/ \E query \in in.queries : ReceiveSearch(c, query)
    \/ \E up \in BOOLEAN : FindMatching(c, up)
    \/ Respond(c)

\* One client, one request after the other, every request of the model.
Next == Step(1, AllInputs)

Spec == Init /\ [][Next]_vars

\* The clients side by side, their handlers interleaved at each await.
NextRace == \E c \in Clients : Step(c, RaceInputs)

SpecRace == Init /\ [][NextRace]_vars

\* ================================================================ claims
Done(c, op) == req[c].pc = "done" /\ req[c].op = op
Answered(c) == res[c].thrown # StoreFailure

\* C1: when two writes (Create or Update, of different records) race to
\* store the same ISBN and the first one stores it, the other one, whose
\* store call answers, gets 400 "ISBN must be unique": never a success and
\* never a 500.
C1_RaceLoserGetsConflict ==
    \A d \in Clients :
        req[d].pc = "done" /\ lost[d] /\ Answered(d)
            => res[d].status = 400 /\ res[d].error = "ISBN must be unique"

\* C1 happens: an Update that lost the race for an ISBN to a Create of the
\* other client has its 400.
C1_Witness ==
    \E d \in Clients :
        /\ Done(d, "update") /\ lost[d] /\ res[d].status = 400
        /\ \E c \in Clients \ {d} : Done(c, "create") /\ res[c].status = 201

\* C2: no two stored books have the same ISBN.
C2_IsbnUnique ==
    \A a, b \in books : a.ISBN = b.ISBN => a = b

\* C2 happens: two books are stored and a write that would have given both
\* the same ISBN was refused.
C2_Witness ==
    /\ Cardinality(books) = 2
    /\ \E c \in Clients : req[c].pc = "done" /\ res[c].thrown = E11000

\* C3: every stored book has publishedYear >= 0 and stockCount >= 0 and a
\* non-empty title, author, genre and ISBN.
C3_StoredBooksValid ==
    \A d \in books :
        /\ d.publishedYear >= 0 /\ d.stockCount >= 0
        /\ d.title # <<>> /\ d.author # <<>> /\ d.genre # <<>> /\ d.ISBN # <<>>

\* The update of body makes the document doc invalid: a required text empty,
\* a number negative, not a number or removed.
MergedInvalid(doc, body) ==
    \/ UpdateCastError(body)
    \/ ~UpdateValid(body)
    \/ ApplyUpdate(doc, body).stockCount < 0
    \/ ApplyUpdate(doc, body).publishedYear < 0

\* C4: an Update of a stored record whose merged document is invalid, and
\* whose store call (if any) answers, responds 400 with the validation error
\* and leaves the collection as it was.
C4_InvalidUpdateRejected ==
    [][\A c \in Clients :
          /\ req[c].pc # "done" /\ req'[c].pc = "done" /\ req'[c].op = "update"
          /\ res'[c].thrown # StoreFailure
          /\ \E d \in ById(books, req'[c].id) : MergedInvalid(d, req'[c].body)
          => /\ res'[c].status = 400
             /\ res'[c].thrown = ValidationError
             /\ books' = books]_vars

\* A body of the six fields as the data model describes them: texts that are
\* not empty and numbers that are not negative.
IsBookPayload(body) ==
    /\ \A p \in StringPaths : body[p].kind = "string" /\ body[p].s # <<>>
    /\ \A p \in NumberPaths : body[p].kind = "number" /\ body[p].n >= 0

\* The six fields of doc are the values of body as they were sent.
EqualsInput(doc, body) ==
    /\ \A p \in StringPaths : doc[p] = body[p].s
    /\ \A p \in NumberPaths : doc[p] = body[p].n

\* The six fields of doc are the values of body, the texts without the white
\* space around them.
EqualsTrimmedInput(doc, body) ==
    /\ \A p \in StringPaths : doc[p] = Trim(body[p].s)
    /\ \A p \in NumberPaths : doc[p] = body[p].n

\* C5 as written: GetByID of a record no Update or Delete has touched since
\* its Create returns the fields of the payload as they were sent.
C5_GetReturnsInput ==
    \A c \in Clients :
        Done(c, "get") /\ res[c].status = 200 =>
            \A b \in res[c].pristine :
                IsBookPayload(b) => EqualsInput(res[c].books[1], b)

\* C5 amended: GetByID of a record no Update or Delete has touched since its
\* Create returns the fields of the payload with the white space around the
\* texts removed, under the id the Create returned.
C5_GetReturnsTrimmedInput ==
    \A c \in Clients :
        Done(c, "get") /\ res[c].status = 200 =>
            /\ Len(res[c].books) = 1 /\ res[c].books[1]._id = req[c].id
            /\ \A b \in res[c].pristine :
                  IsBookPayload(b) => EqualsTrimmedInput(res[c].books[1], b)

\* C5 happens: a GetByID returned a record created from a payload whose
\* title and ISBN have white space around them.
C5_Witness ==
    \E c \in Clients :
        /\ Done(c, "get") /\ res[c].status = 200
        /\ \E b \in res[c].pristine :
              /\ IsBookPayload(b)
              /\ b.title.s # Trim(b.title.s) /\ b.ISBN.s # Trim(b.ISBN.s)

\* C6: a GetByID whose store call answers after a Delete of its id has
\* succeeded responds 404.
C6_DeletedStaysGone ==
    \A c \in Clients :
        Done(c, "get") /\ res[c].afterDelete /\ Answered(c)
            => res[c].status = 404

\* The number of times doc is among the books of pages 1..pages, page p being
\* cut from the order orders[p] in which the store returned the collection.
Occurrences(doc, orders, pages, limit) ==
    Cardinality({pi \in (1..pages) \X (1..Abs(limit)) :
                    /\ pi[2] <= Len(PageBooks(orders[pi[1]], pi[1], limit))
                    /\ PageBooks(orders[pi[1]], pi[1], limit)[pi[2]] = doc})

\* C7: for the collection as it stands and every limit, the pages
\* 1..totalPages hold every record exactly once, whatever order of equal
\* titles the store returns for each page.
C7_PagesHoldEachRecordOnce ==
    \A l \in 1..MaxLimit :
        LET limit == LimitOf(Str(NumText(l)))
            pages == TotalPages(Cardinality(books), limit)
        IN  \A orders \in [1..pages -> SortedByTitle(books)] :
                \A d \in books : Occurrences(d, orders, pages, limit) = 1

\* C8: a List whose store calls answer responds 200, whatever page and limit
\* it was given.
C8_ListNeverFails ==
    \A c \in Clients : Done(c, "list") /\ Answered(c) => res[c].status = 200

\* C9: GetByID answers a malformed id with 400 "Invalid book ID", whether
\* or not the store is up; when its store call answers, a well-formed id
\* with no record gets 404 "Book not found" and a stored record gets 200
\* with that record.
C9_GetOutcomes ==
    \A c \in Clients :
        Done(c, "get") =>
            /\ ~IsObjectId(req[c].id)
                  => res[c].status = 400 /\ res[c].error = "Invalid book ID"
            /\ IsObjectId(req[c].id) /\ Answered(c) /\ ById(books, req[c].id) = {}
                  => res[c].status = 404 /\ res[c].error = "Book not found"
            /\ IsObjectId(req[c].id) /\ Answered(c) /\ ById(books, req[c].id) # {}
                  => /\ res[c].status = 200
                     /\ res[c].books = <<CHOOSE d \in books : d._id = req[c].id>>

\* C9 happens: a GetByID of a malformed id has its 400.
C9_Witness ==
    \E c \in Clients :
        Done(c, "get") /\ ~IsObjectId(req[c].id) /\ res[c].status = 400

\* C10: a Search without a term, or with an empty one, responds 400 "Search
\* query is required" having made no store call, and a Search that responds
\* 400 has made none.
C10_SearchShortCircuits ==
    \A c \in Clients :
        Done(c, "search") =>
            /\ req[c].query.kind = "absent" \/ req[c].query.s = <<>>
                  => /\ res[c].status = 400
                     /\ res[c].error = "Search query is required"
                     /\ req[c].calls = 0
            /\ res[c].status = 400 => req[c].calls = 0

\* C10 happens: a Search with an empty term has its 400 while the
\* collection holds a book it would have matched.
C10_Witness ==
    \E c \in Clients :
        /\ Done(c, "search") /\ req[c].query = Str(<<>>)
        /\ res[c].status = 400 /\ books # {}

\* term is in text, letter case apart.
ContainsText(text, term) ==
    \E k \in 0..(Len(text) - Len(term)) :
        \A i \in 1..Len(term) : ToLower(term[i]) = ToLower(text[k + i])

\* The books of coll with term in the title, the author or the genre.
Containing(coll, term) ==
    {d \in coll : \/ ContainsText(d.title, term)
                  \/ ContainsText(d.author, term)
                  \/ ContainsText(d.genre, term)}

\* C11: a Search with a non-empty term, whose store call answers, responds
\* 200 with at most 10 books, each with the term in its title, author or
\* genre letter case apart, and with all such books when they are fewer
\* than 10 (none of them: the empty list).
C11_SearchReturnsSubstringMatches ==
    \A c \in Clients :
        Done(c, "search") /\ req[c].query.kind = "string"
        /\ req[c].query.s # <<>> /\ Answered(c) =>
            LET hits == Containing(books, req[c].query.s)
                got == {res[c].books[i] : i \in 1..Len(res[c].books)}
            IN  /\ res[c].status = 200
                /\ Len(res[c].books) <= SearchLimit
                /\ Cardinality(got) = Len(res[c].books)
                /\ got \subseteq hits
                /\ Cardinality(hits) < SearchLimit => got = hits

\* In this step the Delete of client c gets its response, and its store
\* call, if it made one, has answered.
DeleteAnswers(c) ==
    /\ req[c].pc # "done" /\ req'[c].pc = "done" /\ req'[c].op = "delete"
    /\ res'[c].thrown # StoreFailure

\* The Delete that answers in this step has removed the book of its id, and
\* no other, and has sent 200 with the confirmation message.
DeleteRemoved(c) ==
    /\ res'[c].status = 200
    /\ res'[c].message = "Book deleted successfully"
    /\ books' = {d \in books : d._id # req'[c].id}
    /\ Cardinality(books') = Cardinality(books) - 1

\* C12 as written: Delete(id) of a stored record responds 200 with the
\* confirmation message and removes that record and no other; Delete(id) of
\* any id without a stored record responds 404 and leaves the store as it was.
C12_DeleteRemovesOrNotFound ==
    [][\A c \in Clients :
          DeleteAnswers(c) =>
              IF ById(books, req'[c].id) # {}
              THEN DeleteRemoved(c)
              ELSE res'[c].status = 404 /\ books' = books]_vars

\* C12, amended: Delete(id) of a stored record responds 200 with the
\* confirmation message and removes that record and no other; Delete(id) of
\* a well-formed id without a stored record responds 404, Delete(id) of a
\* malformed id responds 500, and both leave the store as it was.
C12_DeleteRemovesOrNotFoundWellFormed ==
    [][\A c \in Clients :
          DeleteAnswers(c) =>
              IF ById(books, req'[c].id) # {}
              THEN DeleteRemoved(c)
              ELSE /\ res'[c].status = IF IsObjectId(req'[c].id) THEN 404 ELSE 500
                   /\ res'[c].error = IF IsObjectId(req'[c].id)
                                      THEN "Book not found"
                                      ELSE "Internal server error"
                   /\ books' = books]_vars

\* A Delete has removed one book of a catalog of two.
C12_Witness ==
    \E c \in Clients :
        /\ Done(c, "delete") /\ res[c].status = 200
        /\ req[c].id \in deleted
        /\ ById(books, req[c].id) = {}
        /\ books # {}

StoredIds(coll) == {d._id : d \in coll}

\* In this step the insert of a Create succeeds.
CreateSucceeds(c) ==
    /\ req[c].op = "create" /\ req[c].pc = "store"
    /\ req'[c].pc = "done" /\ res'[c].status = 201

\* Once a Delete that removed a book and an Update of the same id have both
\* answered, the book is not in the store; an Update whose store call
\* answers after a Delete of its id answers 404.
UpdateNeverRevives ==
    /\ \A c, d \in Clients :
          /\ Done(c, "delete") /\ res[c].status = 200
          /\ Done(d, "update") /\ req[d].id = req[c].id
          => ById(books, req[c].id) = {}
    /\ \A c \in Clients :
          Done(c, "update") /\ res[c].afterDelete => res[c].status = 404

\* C14: Update never creates a record. When an Update and a Delete of the
\* same record race, the record is absent once both have answered, and the
\* Update answers 404 if it ran after the Delete; an id enters the store
\* only in the step in which the insert of a Create succeeds, and that step
\* brings the id of the created book and no other.
C14_UpdateNeverCreates ==
    /\ []UpdateNeverRevives
    /\ [][\/ StoredIds(books') \subseteq StoredIds(books)
          \/ \E c \in Clients :
                /\ CreateSucceeds(c)
                /\ StoredIds(books') \ StoredIds(books) = {res'[c].books[1]._id}]_vars

\* An Update that ran after the Delete of its record has answered, and the
\* Delete has answered too.
C14_Witness ==
    \E c, d \in Clients :
        /\ Done(c, "delete") /\ res[c].status = 200
        /\ Done(d, "update") /\ req[d].id = req[c].id
        /\ res[d].afterDelete /\ res[d].status = 404
        /\ req[d].calls = 1

\* The store answers the call that the handler of client c awaits.
StoreAnswers(c) ==
    \E up \in BOOLEAN :
        \/ InsertOne(c, up) \/ FindOneAndUpdate(c, up) \/ FindById(c, up)
        \/ FindOneAndDelete(c, up) \/ Find(c, up) \/ CountDocuments(c, up)
        \/ FindMatching(c, up)

\* C15: a request whose handler has ended has been sent one response, with
\* one status, and never a second one; until then nothing has been sent and
\* the handler awaits a store call whose answer it takes.
C15_ExactlyOneResponse ==
    \A c \in Clients :
        /\ req[c].pc = "done" =>
              /\ res[c].sent = 1
              /\ res[c].status \in {200, 201, 400, 404, 500}
        /\ req[c].pc # "done" => res[c] = NoRes
        /\ req[c].pc \in {"store", "count"} => ENABLED StoreAnswers(c)

\* A GetByID has taken the not-found early return.
C15_Witness ==
    \E c \in Clients :
        /\ Done(c, "get") /\ req[c].calls = 1
        /\ res[c].status = 404 /\ res[c].sent = 1

====
